---- MODULE Spec2Model ----
(***************************************************************************)
(* A model of the keyed services of the bond-trading back office           *)
(* (mth9815): TradeBookingService, PricingService, StreamingService,       *)
(* MarketDataService, ExecutionService, HistoricalDataService,             *)
(* PositionService, RiskService and InquiryService.                        *)
(*                                                                         *)
(* The repository is a library of independent service classes: no class    *)
(* reads the state of another.  A behaviour of this model is the life of   *)
(* one service object; svc is the class of that object, fixed when it is   *)
(* constructed.  Every public method is one action.  The code is           *)
(* single-threaded and the fan-out to the listeners is a loop inside the   *)
(* method, so a method together with its listener calls is one step.       *)
(*                                                                         *)
(* Doubles are modelled by integers (prices) and by exact fractions with   *)
(* the IEEE special values for a division by zero (GetBucketedRisk).       *)
(* The per-unit PV01 0.01 is counted in hundredths.  long quantities are   *)
(* far below the 64-bit range in every run.                                *)
(***************************************************************************)
EXTENDS Integers, Sequences, FiniteSets, TLC

\* ------------------------------------------------------------------ bounds
\* Number of ingestion calls (calls that write the table) in one behaviour.
MaxOps == 2
\* Number of AddListener calls in one behaviour.
MaxListeners == 2
\* Length of the history up to which SendQuote and RejectInquiry may still
\* move a stored inquiry: one past MaxOps, so that an inquiry can be
\* ingested, quoted and rejected in one behaviour.
MaxTransitions == MaxOps + 1

\* ------------------------------------------------------------- value sets
Services ==
  {"tradebooking", "pricing", "streaming", "marketdata", "execution",
   "historical", "position", "risk", "inquiry"}

Listeners == {"L1", "L2"}
Products == {"P1", "P2"}
Books == {"B1", "B2"}
Quantities == {1, 2}

\* enum Side { BUY, SELL }
Side == {"BUY", "SELL"}
\* enum PricingSide { BID, OFFER }
PricingSide == {"BID", "OFFER"}
\* enum InquiryState { RECEIVED, QUOTED, DONE, REJECTED, CUSTOMER_REJECTED }
InquiryState == {"RECEIVED", "QUOTED", "DONE", "REJECTED", "CUSTOMER_REJECTED"}
\* enum Market { BROKERTEC, ESPEED, CME }
Market == {"BROKERTEC", "ESPEED", "CME"}

\* The key HistoricalDataService::OnMessage persists every message under.
DefaultKey == "DefaultKey"

\* The per-unit sensitivity RiskService::AddPosition gives a new entry
\* (0.01), in hundredths.
PV01PerUnit == 1

VARIABLES
  svc,           \* class of the service object
  dataStore,     \* the table: a function from the stored keys to the values
  listeners,     \* the listener vector
  bestBidOffer,  \* MarketDataService::bestBidOffer (member, rewritten by GetBestBidOffer)
  calls,         \* listener calls made by the last method call, in order
  result,        \* outcome of the last method call
  hist           \* ingestion calls that wrote the table, oldest first

vars == <<svc, dataStore, listeners, bestBidOffer, calls, result, hist>>

\* --------------------------------------------------------------- entities
\* Trade(product, tradeId, price, book, quantity, side)
Trade(product, tradeId, price, book, quantity, side) ==
  [product |-> product, tradeId |-> tradeId, price |-> price, book |-> book,
   quantity |-> quantity, side |-> side]

\* Position(product): no book yet
Position(product) == [product |-> product, positions |-> <<>>]

\* PV01(product, pv01, quantity)
PV01(product, pv01, quantity) ==
  [product |-> product, pv01 |-> pv01, quantity |-> quantity]

\* Order(price, quantity, side)
Order(price, quantity, side) == [price |-> price, quantity |-> quantity, side |-> side]

\* BidOffer(bidOrder, offerOrder)
BidOffer(bidOrder, offerOrder) == [bidOrder |-> bidOrder, offerOrder |-> offerOrder]

\* OrderBook(product, bidStack, offerStack)
OrderBook(product, bidStack, offerStack) ==
  [product |-> product, bidStack |-> bidStack, offerStack |-> offerStack]

\* Price(product, mid, bidOfferSpread)
Price(product, mid, bidOfferSpread) ==
  [product |-> product, mid |-> mid, bidOfferSpread |-> bidOfferSpread]

\* PriceStreamOrder(price, visibleQuantity, hiddenQuantity, side)
PriceStreamOrder(price, visibleQuantity, hiddenQuantity, side) ==
  [price |-> price, visibleQuantity |-> visibleQuantity,
   hiddenQuantity |-> hiddenQuantity, side |-> side]

\* PriceStream(product, bidOrder, offerOrder)
PriceStream(product, bidOrder, offerOrder) ==
  [product |-> product, bidOrder |-> bidOrder, offerOrder |-> offerOrder]

\* ExecutionOrder(product, side, orderId, orderType, price, visible, hidden, parent, isChild)
ExecutionOrder(product, side, orderId, price) ==
  [product |-> product, side |-> side, orderId |-> orderId, orderType |-> "LIMIT",
   price |-> price, visibleQuantity |-> 1, hiddenQuantity |-> 0,
   parentOrderId |-> "", isChildOrder |-> FALSE]

\* Inquiry(inquiryId, product, side, quantity, price, state)
Inquiry(inquiryId, product, side, quantity, price, state) ==
  [inquiryId |-> inquiryId, product |-> product, side |-> side,
   quantity |-> quantity, price |-> price, state |-> state]

\* What operator[] of the map puts under a key that is absent: a
\* value-initialised OrderBook (empty product, empty stacks).
DefaultOrderBook == OrderBook("", <<>>, <<>>)

\* ------------------------------------------------------- inputs of a feed
BookingTrades ==
  {Trade("P1", id, 100, "B1", q, "BUY") : id \in {"T1", "T2"}, q \in Quantities}

\* Trades handed to PositionService::AddTrade: buys and sells of one and of
\* two units in both books of P1, and a buy and a sell in one book of P2.
PositionTrades ==
  {Trade("P1", "T1", 100, "B1", 1, "BUY"), Trade("P1", "T2", 100, "B1", 2, "BUY"),
   Trade("P1", "T3", 100, "B1", 1, "SELL"), Trade("P1", "T4", 100, "B2", 1, "BUY"),
   Trade("P1", "T5", 100, "B2", 2, "SELL"), Trade("P2", "T6", 100, "B1", 1, "BUY"),
   Trade("P2", "T7", 100, "B1", 1, "SELL")}

Prices == {Price(p, mid, 1) : p \in Products, mid \in {100, 101}}

PriceStreams ==
  {PriceStream(p, PriceStreamOrder(px, 1, 2, "BID"), PriceStreamOrder(px + 1, 1, 2, "OFFER")) :
     p \in Products, px \in {99, 100}}

\* Order books of a market-data feed: one level a side, a bid stack that is
\* not sorted best first, an empty bid stack, an empty offer stack, and a
\* crossed book (bid above offer).
OrderBooks ==
  {OrderBook("P1", <<Order(99, 1, "BID")>>, <<Order(100, 1, "OFFER")>>),
   OrderBook("P1", <<Order(98, 2, "BID"), Order(99, 1, "BID")>>, <<Order(100, 1, "OFFER")>>),
   OrderBook("P1", <<>>, <<Order(100, 1, "OFFER")>>),
   OrderBook("P1", <<Order(99, 1, "BID")>>, <<>>),
   OrderBook("P2", <<Order(101, 1, "BID")>>, <<Order(100, 1, "OFFER")>>)}

ExecutionOrders ==
  {ExecutionOrder(p, "BID", id, 100) : p \in Products, id \in {"O1", "O2"}}

\* Entities handed to the historical-data sink: each has its own identifier.
HistoricalEntities == {[id |-> "E1", payload |-> 1], [id |-> "E2", payload |-> 2]}
PersistKeys == {"E1", "E2", DefaultKey}

\* Position objects handed to RiskService::AddPosition.
BookMaps ==
  {("B1" :> 1), ("B1" :> 2), ("B1" :> -1), ("B1" :> 1) @@ ("B2" :> -1)}
RiskPositions ==
  {[product |-> "P1", positions |-> m] : m \in BookMaps}
    \cup {[product |-> "P2", positions |-> m] :
            m \in {("B1" :> 1), ("B1" :> -1), ("B1" :> 3)}}

\* BucketedSector products: vectors of products, repetitions allowed.
Sectors ==
  {<<>>} \cup {<<p>> : p \in Products} \cup {<<p, q>> : p \in Products, q \in Products}

InquiryIds == {"I1", "I2"}
\* Inquiries of a feed: I1 as received and in the two states that no method
\* of the service sets, I2 as received.
Inquiries ==
  {Inquiry("I1", "P1", "BUY", 1, 0, st) : st \in {"RECEIVED", "DONE", "CUSTOMER_REJECTED"}}
    \cup {Inquiry("I2", "P1", "BUY", 1, 0, "RECEIVED")}
QuotePrices == {100, 101}

\* Keys a caller may query, per class: every key a feed can ingest under.
Keys(s) ==
  CASE s = "tradebooking" -> {"T1", "T2"}
    [] s = "execution" -> {"O1", "O2"} \cup Products
    [] s = "historical" -> PersistKeys
    [] s = "inquiry" -> InquiryIds
    [] OTHER -> Products

\* ---------------------------------------------------------------- helpers
NoValue == <<>>

\* A BidOffer member before the first GetBestBidOffer: value-initialised.
NoBidOffer == BidOffer(Order(0, 0, "BID"), Order(0, 0, "BID"))

\* What a read through front() of an empty vector may yield.
GarbageOrders == {Order(0, 0, "BID"), Order(-1, 7, "OFFER")}

\* dataStore.find(key) != dataStore.end()
Has(store, key) == key \in DOMAIN store

\* Put as dataStore.insert({key, value}): a key that is present keeps its value.
PutIfAbsent(store, key, value) == store @@ (key :> value)

\* dataStore[key] = value
Put(store, key, value) == (key :> value) @@ store

\* The outcome of a method call, as its caller sees it.  existed is whether
\* the key was in the table when the call began.
Outcome(op, key, status, value, existed) ==
  [op |-> op, key |-> key, status |-> status, value |-> value, existed |-> existed]

Alive == result.status # "crash"

\* A listener call either returns or throws; failAt = 0 means that no
\* listener throws, failAt = i that the i-th one does.
FailPoints == 0..Len(listeners)

\* Notify with the loop running from the last listener to the first.
NotifyReversed(method, data, failAt) ==
  [i \in 1..(IF failAt = 0 THEN Len(listeners) ELSE failAt) |->
     [listener |-> listeners[Len(listeners) + 1 - i], method |-> method, data |-> data,
      threw |-> (i = failAt)]]

\* for (auto& listener : listeners) listener->method(data);
\* the loop ends at the first listener that throws.
Notify(method, data, failAt) ==
  [i \in 1..(IF failAt = 0 THEN Len(listeners) ELSE failAt) |->
     [listener |-> listeners[i], method |-> method, data |-> data,
      threw |-> (i = failAt)]]

\* FanOutStatus of a fan-out that swallows the listener's exception.
FanOutStatusSilent(failAt) == "ok"

\* How a method that ran its fan-out ends: normally, or with the exception
\* of the listener that threw.
FanOutStatus(failAt) == IF failAt = 0 THEN "ok" ELSE "ListenerError"

\* Publish that does nothing more when the key already holds the value: the
\* listeners are not called again.
PublishIfChanged(op, key, value, method, failAt) ==
  /\ Alive
  /\ Len(hist) < MaxOps
  /\ dataStore' = Put(dataStore, key, value)
  /\ calls' = IF Has(dataStore, key) /\ dataStore[key] = value
                THEN <<>>
                ELSE Notify(method, value, failAt)
  /\ result' = Outcome(op, key, FanOutStatus(failAt), NoValue, Has(dataStore, key))
  /\ hist' = Append(hist, [op |-> op, key |-> key, arg |-> value])
  /\ UNCHANGED <<svc, listeners, bestBidOffer>>

\* A table write followed by the fan-out: the body shared by the
\* overwrite-style ingestion methods.
Publish(op, key, value, method, failAt) ==
  /\ Alive
  /\ Len(hist) < MaxOps
  /\ dataStore' = Put(dataStore, key, value)
  /\ calls' = Notify(method, value, failAt)
  /\ result' = Outcome(op, key, FanOutStatus(failAt), NoValue, Has(dataStore, key))
  /\ hist' = Append(hist, [op |-> op, key |-> key, arg |-> value])
  /\ UNCHANGED <<svc, listeners, bestBidOffer>>

\* A query that throws: nothing is written.
Throw(op, key, status) ==
  /\ calls' = <<>>
  /\ result' = Outcome(op, key, status, NoValue, Has(dataStore, key))
  /\ UNCHANGED <<svc, dataStore, listeners, bestBidOffer, hist>>

\* A query that returns a value and writes nothing.
Return(op, key, value) ==
  /\ calls' = <<>>
  /\ result' = Outcome(op, key, "ok", value, Has(dataStore, key))
  /\ UNCHANGED <<svc, dataStore, listeners, bestBidOffer, hist>>

\* FindOrThrow as return dataStore[key]: an absent key gets an empty entry.
FindOrInsert(key) ==
  /\ Alive
  /\ dataStore' = IF Has(dataStore, key) THEN dataStore ELSE Put(dataStore, key, NoValue)
  /\ calls' = <<>>
  /\ result' = Outcome("GetData", key, "ok", dataStore'[key], Has(dataStore, key))
  /\ UNCHANGED <<svc, listeners, bestBidOffer, hist>>

\* if (dataStore.find(key) != dataStore.end()) return dataStore[key];
\* else throw std::runtime_error(...)
FindOrThrow(key) ==
  /\ Alive
  /\ IF Has(dataStore, key)
       THEN Return("GetData", key, dataStore[key])
       ELSE Throw("GetData", key, "NotFound")

\* ------------------------------------------------------ every service class
\* AddListener that skips a listener that is already registered.
AddListenerUnique ==
  \E l \in Listeners :
    /\ Alive
    /\ Len(listeners) < MaxListeners
    /\ listeners' = IF \E i \in 1..Len(listeners) : listeners[i] = l
                      THEN listeners
                      ELSE Append(listeners, l)
    /\ calls' = <<>>
    /\ result' = Outcome("AddListener", l, "ok", NoValue, FALSE)
    /\ UNCHANGED <<svc, dataStore, bestBidOffer, hist>>

\* listeners.push_back(listener)
AddListener ==
  \E l \in Listeners :
    /\ Alive
    /\ Len(listeners) < MaxListeners
    /\ listeners' = Append(listeners, l)
    /\ calls' = <<>>
    /\ result' = Outcome("AddListener", l, "ok", NoValue, FALSE)
    /\ UNCHANGED <<svc, dataStore, bestBidOffer, hist>>

\* return listeners
GetListeners ==
  /\ Alive
  /\ calls' = <<>>
  /\ result' = Outcome("GetListeners", "", "ok", listeners, FALSE)
  /\ UNCHANGED <<svc, dataStore, listeners, bestBidOffer, hist>>

\* ------------------------------------------------------ TradeBookingService
BookTrade ==
  \E trade \in BookingTrades, failAt \in FailPoints :
    /\ svc = "tradebooking"
    /\ Publish("BookTrade", trade.tradeId, trade, "ProcessAdd", failAt)

TradeBookingGetData ==
  \E tradeId \in Keys("tradebooking") :
    /\ svc = "tradebooking"
    /\ FindOrThrow(tradeId)

\* ----------------------------------------------------------- PricingService
PricingPublishPrice ==
  \E price \in Prices, failAt \in FailPoints :
    /\ svc = "pricing"
    /\ Publish("PublishPrice", price.product, price, "ProcessAdd", failAt)

PricingGetData ==
  \E productId \in Keys("pricing") :
    /\ svc = "pricing"
    /\ FindOrThrow(productId)

\* --------------------------------------------------------- StreamingService
StreamingPublishPrice ==
  \E priceStream \in PriceStreams, failAt \in FailPoints :
    /\ svc = "streaming"
    /\ Publish("PublishPrice", priceStream.product, priceStream, "ProcessAdd", failAt)

StreamingGetData ==
  \E productId \in Keys("streaming") :
    /\ svc = "streaming"
    /\ FindOrThrow(productId)

\* --------------------------------------------------------- ExecutionService
\* data[order.GetOrderId()] = order, then the fan-out; market only goes to
\* the log line.
ExecuteOrder(order, market, failAt) ==
  Publish("ExecuteOrder", order.orderId, order, "ProcessAdd", failAt)

ExecutionExecuteOrder ==
  \E order \in ExecutionOrders, market \in Market, failAt \in FailPoints :
    /\ svc = "execution"
    /\ ExecuteOrder(order, market, failAt)

\* ExecuteOrder(data, BROKERTEC)
ExecutionOnMessage ==
  \E order \in ExecutionOrders, failAt \in FailPoints :
    /\ svc = "execution"
    /\ ExecuteOrder(order, "BROKERTEC", failAt)

\* return data.at(key): std::out_of_range when the key is absent
ExecutionGetData ==
  \E key \in Keys("execution") :
    /\ svc = "execution"
    /\ Alive
    /\ IF Has(dataStore, key)
         THEN Return("GetData", key, dataStore[key])
         ELSE Throw("GetData", key, "NotFound")

\* ---------------------------------------------------- HistoricalDataService
PersistData(persistKey, data, failAt) ==
  Publish("PersistData", persistKey, data, "ProcessAdd", failAt)

HistoricalPersistData ==
  \E persistKey \in PersistKeys, data \in HistoricalEntities, failAt \in FailPoints :
    /\ svc = "historical"
    /\ PersistData(persistKey, data, failAt)

\* std::string key = "DefaultKey"; PersistData(key, data)
HistoricalOnMessage ==
  \E data \in HistoricalEntities, failAt \in FailPoints :
    /\ svc = "historical"
    /\ PersistData(DefaultKey, data, failAt)

HistoricalGetData ==
  \E key \in Keys("historical") :
    /\ svc = "historical"
    /\ FindOrThrow(key)

\* -------------------------------------------------------- MarketDataService
\* dataStore[productId] as a read: the stored book, or a value-initialised
\* one that operator[] inserts under the key.
Subscript(store, key) == IF Has(store, key) THEN store ELSE Put(store, key, DefaultOrderBook)

\* Front as stack.back().
FrontLast(stack) == IF stack # <<>> THEN {stack[Len(stack)]} ELSE GarbageOrders

\* stack.front(): the first element; of an empty vector, undefined.
Front(stack) == IF stack # <<>> THEN {stack[1]} ELSE GarbageOrders

\* auto& orderBook = dataStore[productId];
\* bestBidOffer = BidOffer(bidStack.front(), offerStack.front());
\* front() of an empty stack is undefined behaviour: the call crashes or
\* goes on with whatever the read yields.
GetBestBidOffer ==
  \E productId \in Keys("marketdata") :
    LET store == Subscript(dataStore, productId)
        orderBook == store[productId]
        defined == orderBook.bidStack # <<>> /\ orderBook.offerStack # <<>>
    IN /\ svc = "marketdata"
       /\ Alive
       /\ dataStore' = store
       /\ calls' = <<>>
       /\ \/ \E bestBid \in Front(orderBook.bidStack),
                bestOffer \in Front(orderBook.offerStack) :
               /\ bestBidOffer' = BidOffer(bestBid, bestOffer)
               /\ result' = Outcome("GetBestBidOffer", productId, "ok",
                                    BidOffer(bestBid, bestOffer), Has(dataStore, productId))
          \/ /\ ~defined
             /\ bestBidOffer' = bestBidOffer
             /\ result' = Outcome("GetBestBidOffer", productId, "crash", NoValue,
                                  Has(dataStore, productId))
       /\ UNCHANGED <<svc, listeners, hist>>

\* return dataStore[productId]
AggregateDepth ==
  \E productId \in Keys("marketdata") :
    LET store == Subscript(dataStore, productId)
    IN /\ svc = "marketdata"
       /\ Alive
       /\ dataStore' = store
       /\ calls' = <<>>
       /\ result' = Outcome("AggregateDepth", productId, "ok", store[productId],
                            Has(dataStore, productId))
       /\ UNCHANGED <<svc, listeners, bestBidOffer, hist>>

MarketDataOnMessage ==
  \E data \in OrderBooks, failAt \in FailPoints :
    /\ svc = "marketdata"
    /\ Publish("OnMessage", data.product, data, "ProcessAdd", failAt)

MarketDataGetData ==
  \E productId \in Keys("marketdata") :
    /\ svc = "marketdata"
    /\ FindOrThrow(productId)

\* ---------------------------------------------------------- PositionService
\* Sum of f over the keys in S, in the order a loop over the map visits them.
RECURSIVE SumOver(_, _)
SumOver(f, S) ==
  IF S = {} THEN 0
  ELSE LET k == CHOOSE x \in S : TRUE IN f[k] + SumOver(f, S \ {k})

\* positions[book] as a value: 0 for a book that is absent
BookQuantity(positions, book) == IF book \in DOMAIN positions THEN positions[book] ELSE 0

\* UpdatePosition as positions[book] = quantity.
UpdatePositionReplace(position, book, quantity) ==
  [position EXCEPT !.positions = (book :> quantity) @@ @]

\* positions[book] += quantity
UpdatePosition(position, book, quantity) ==
  [position EXCEPT
     !.positions = (book :> (BookQuantity(position.positions, book) + quantity)) @@ @]

\* long aggregate = 0; for (entry : positions) aggregate += entry.second;
GetAggregatePosition(position) == SumOver(position.positions, DOMAIN position.positions)

\* SignedQuantity without the test of the side: every trade counts as a buy.
SignedQuantityUnsigned(trade) == trade.quantity

\* trade.GetSide() == BUY ? trade.GetQuantity() : -trade.GetQuantity()
SignedQuantity(trade) == IF trade.side = "BUY" THEN trade.quantity ELSE -trade.quantity

\* The table after AddTrade(trade): the Position of the product is created
\* when absent, then the book of the trade is moved by the signed quantity.
AddTradeStore(store, trade) ==
  LET productId == trade.product
      base == IF Has(store, productId) THEN store
              ELSE Put(store, productId, Position(trade.product))
  IN Put(base, productId, UpdatePosition(base[productId], trade.book, SignedQuantity(trade)))

\* AddTrade that puts the table back when a listener has thrown.
AddTradeRollback ==
  \E trade \in PositionTrades, failAt \in FailPoints :
    LET productId == trade.product
        store == AddTradeStore(dataStore, trade)
    IN /\ svc = "position"
       /\ Alive
       /\ Len(hist) < MaxOps
       /\ dataStore' = IF failAt = 0 THEN store ELSE dataStore
       /\ calls' = Notify("ProcessUpdate", store[productId], failAt)
       /\ result' = Outcome("AddTrade", productId, FanOutStatus(failAt), NoValue,
                            Has(dataStore, productId))
       /\ hist' = Append(hist, [op |-> "AddTrade", key |-> productId, arg |-> trade])
       /\ UNCHANGED <<svc, listeners, bestBidOffer>>

AddTrade ==
  \E trade \in PositionTrades, failAt \in FailPoints :
    LET productId == trade.product
        store == AddTradeStore(dataStore, trade)
    IN /\ svc = "position"
       /\ Alive
       /\ Len(hist) < MaxOps
       /\ dataStore' = store
       /\ calls' = Notify("ProcessUpdate", store[productId], failAt)
       /\ result' = Outcome("AddTrade", productId, FanOutStatus(failAt), NoValue,
                            Has(dataStore, productId))
       /\ hist' = Append(hist, [op |-> "AddTrade", key |-> productId, arg |-> trade])
       /\ UNCHANGED <<svc, listeners, bestBidOffer>>

PositionGetData ==
  \E productId \in Keys("position") :
    /\ svc = "position"
    /\ FindOrThrow(productId)

\* GetData(productId).GetPosition(book): return positions[book], which
\* inserts the book with quantity 0 when it is absent.
PositionGetPosition ==
  \E productId \in Keys("position"), book \in Books :
    /\ svc = "position"
    /\ Alive
    /\ IF Has(dataStore, productId)
         THEN /\ dataStore' = Put(dataStore, productId,
                                  UpdatePosition(dataStore[productId], book, 0))
              /\ calls' = <<>>
              /\ result' = Outcome("GetPosition", productId, "ok",
                                   BookQuantity(dataStore[productId].positions, book), TRUE)
              /\ UNCHANGED <<svc, listeners, bestBidOffer, hist>>
         ELSE Throw("GetPosition", productId, "NotFound")

\* GetData(productId).GetAggregatePosition()
PositionGetAggregatePosition ==
  \E productId \in Keys("position") :
    /\ svc = "position"
    /\ Alive
    /\ IF Has(dataStore, productId)
         THEN Return("GetAggregatePosition", productId,
                     GetAggregatePosition(dataStore[productId]))
         ELSE Throw("GetAggregatePosition", productId, "NotFound")

\* -------------------------------------------------------------- RiskService
Abs(x) == IF x < 0 THEN -x ELSE x

RECURSIVE GCD(_, _)
GCD(a, b) == IF b = 0 THEN a ELSE GCD(b, a % b)

NaN == [num |-> 0, den |-> 0]
PosInf == [num |-> 1, den |-> 0]
NegInf == [num |-> -1, den |-> 0]

\* The double a / b: the exact quotient as a fraction in lowest terms with
\* a positive denominator; for b = 0 the IEEE result, NaN for 0/0 and an
\* infinity with the sign of a otherwise.
DoubleDiv(a, b) ==
  IF b = 0
    THEN IF a = 0 THEN NaN ELSE IF a > 0 THEN PosInf ELSE NegInf
    ELSE LET g == GCD(Abs(a), Abs(b))
             sgn == IF b < 0 THEN -1 ELSE 1
         IN [num |-> (sgn * a) \div g, den |-> (sgn * b) \div g]

\* ------------------------------------------------- binary64 arithmetic
\* The fractions above are the real values of the quotients.  What follows
\* is the value the build computes in IEEE binary64, rounding to nearest,
\* ties to even, at every operation (no fused multiply-add).  A natural
\* number is the sequence of its binary digits, lowest first, without a
\* leading zero; a double is sign * mant * 2^exp with a mant of 53 digits,
\* or zero.  The magnitudes of the model are far from the subnormal and
\* the overflow range.
Precision == 53

RECURSIVE Trim(_)
Trim(b) == IF b = <<>> \/ b[Len(b)] = 1 THEN b ELSE Trim(SubSeq(b, 1, Len(b) - 1))

BitAt(b, i) == IF i \in 1..Len(b) THEN b[i] ELSE 0

\* The arithmetic goes eight digits at a time: the number made of the
\* digits i .. i + 7 of b, and the digits of v < 256.
ChunkAt(b, i) ==
  BitAt(b, i) + 2 * BitAt(b, i + 1) + 4 * BitAt(b, i + 2) + 8 * BitAt(b, i + 3)
    + 16 * BitAt(b, i + 4) + 32 * BitAt(b, i + 5) + 64 * BitAt(b, i + 6)
    + 128 * BitAt(b, i + 7)

ChunkDigits(v) ==
  <<v % 2, (v \div 2) % 2, (v \div 4) % 2, (v \div 8) % 2, (v \div 16) % 2,
    (v \div 32) % 2, (v \div 64) % 2, (v \div 128) % 2>>

\* a + b + carry from digit i upwards
RECURSIVE AddFrom(_, _, _, _)
AddFrom(a, b, i, carry) ==
  IF i > Len(a) /\ i > Len(b)
    THEN ChunkDigits(carry)
    ELSE LET t == ChunkAt(a, i) + ChunkAt(b, i) + carry
         IN ChunkDigits(t % 256) \o AddFrom(a, b, i + 8, t \div 256)

BigAdd(a, b) == Trim(AddFrom(a, b, 1, 0))

\* a - b - borrow from digit i upwards, for a >= b
RECURSIVE SubFrom(_, _, _, _)
SubFrom(a, b, i, borrow) ==
  IF i > Len(a)
    THEN <<>>
    ELSE LET t == ChunkAt(a, i) - ChunkAt(b, i) - borrow
         IN ChunkDigits((256 + t) % 256)
              \o SubFrom(a, b, i + 8, IF t < 0 THEN 1 ELSE 0)

BigSub(a, b) == Trim(SubFrom(a, b, 1, 0))

BigLess(a, b) ==
  \/ Len(a) < Len(b)
  \/ /\ Len(a) = Len(b)
     /\ \E i \in 1..Len(a) : a[i] < b[i] /\ \A j \in (i + 1)..Len(a) : a[j] = b[j]

ShiftLeft(b, k) == IF b = <<>> THEN <<>> ELSE [i \in 1..k |-> 0] \o b

\* b * n for a natural number n
RECURSIVE MulSmall(_, _)
MulSmall(b, n) ==
  IF n = 0 THEN <<>>
  ELSE BigAdd(IF n % 2 = 1 THEN b ELSE <<>>, ShiftLeft(MulSmall(b, n \div 2), 1))

\* Long division by n > 0 of the digits of b below digit i + 8, rem left
\* from the digits above.
RECURSIVE DivFrom(_, _, _, _)
DivFrom(b, n, i, rem) ==
  IF i < 1
    THEN [q |-> <<>>, r |-> rem]
    ELSE LET cur == rem * 256 + ChunkAt(b, i)
             lower == DivFrom(b, n, i - 8, cur % n)
         IN [q |-> lower.q \o ChunkDigits(cur \div n), r |-> lower.r]

\* b shifted so that its lowest digit opens a chunk, divided by n.
DivSmall(b, n) ==
  LET top == 8 * ((Len(b) + 7) \div 8) - 7
      d == DivFrom(b, n, top, 0)
  IN [q |-> Trim(d.q), r |-> d.r]

Binary64Zero == [sign |-> 1, mant |-> <<>>, exp |-> 0]

\* The double nearest to sign * (m + f) * 2^e, where 0 <= f < 1 and inexact
\* says that f > 0; ties go to the even mant.
Binary64Round(sign, m, e, inexact) ==
  IF m = <<>> THEN Binary64Zero
  ELSE IF Len(m) <= Precision
    THEN [sign |-> sign, mant |-> ShiftLeft(m, Precision - Len(m)),
          exp |-> e - (Precision - Len(m))]
    ELSE LET d == Len(m) - Precision
             kept == SubSeq(m, d + 1, Len(m))
             rest == inexact \/ \E i \in 1..(d - 1) : m[i] = 1
             up == m[d] = 1 /\ (rest \/ kept[1] = 1)
             r == IF up THEN BigAdd(kept, <<1>>) ELSE kept
         IN IF Len(r) > Precision
              THEN [sign |-> sign, mant |-> SubSeq(r, 2, Len(r)), exp |-> e + d + 1]
              ELSE [sign |-> sign, mant |-> r, exp |-> e + d]

\* double * (double)long
Binary64Times(x, q) ==
  IF q = 0 \/ x.mant = <<>> THEN Binary64Zero
  ELSE Binary64Round(IF q < 0 THEN -x.sign ELSE x.sign, MulSmall(x.mant, Abs(q)),
                     x.exp, FALSE)

\* double + double
Binary64Plus(x, y) ==
  IF x.mant = <<>> THEN y
  ELSE IF y.mant = <<>> THEN x
  ELSE LET e == IF x.exp < y.exp THEN x.exp ELSE y.exp
           a == ShiftLeft(x.mant, x.exp - e)
           b == ShiftLeft(y.mant, y.exp - e)
       IN IF x.sign = y.sign THEN Binary64Round(x.sign, BigAdd(a, b), e, FALSE)
          ELSE IF a = b THEN Binary64Zero
          ELSE IF BigLess(a, b) THEN Binary64Round(y.sign, BigSub(b, a), e, FALSE)
          ELSE Binary64Round(x.sign, BigSub(a, b), e, FALSE)

\* double / (double)long, for a divisor that is not zero
Binary64Over(x, n) ==
  IF x.mant = <<>> THEN Binary64Zero
  ELSE LET d == DivSmall(ShiftLeft(x.mant, Precision + 2), Abs(n))
       IN Binary64Round(IF n < 0 THEN -x.sign ELSE x.sign, d.q,
                        x.exp - (Precision + 2), d.r # 0)

\* The digits of a number written in hexadecimal, highest digit first.
RECURSIVE FromHex(_)
FromHex(h) ==
  IF h = <<>> THEN <<>>
  ELSE LET x == h[Len(h)]
       IN <<x % 2, (x \div 2) % 2, (x \div 4) % 2, x \div 8>>
            \o FromHex(SubSeq(h, 1, Len(h) - 1))

\* The literal 0.01 as a double: 0x1.47ae147ae147bp-7.
Binary64PV01 ==
  [sign |-> 1,
   mant |-> Trim(FromHex(<<1, 4, 7, 10, 14, 1, 4, 7, 10, 14, 1, 4, 7, 11>>)),
   exp |-> -59]

\* The double in the pv01 field of a stored entry: the table only ever
\* holds the sensitivity 0.01, once per hundredth of the model.
Binary64Of(hundredths) == Binary64Times(Binary64PV01, hundredths)

\* UpdateQuantity as quantity += newQuantity.
UpdateQuantityAccumulate(pv01, newQuantity) ==
  [pv01 EXCEPT !.quantity = @ + newQuantity]

\* quantity = newQuantity
UpdateQuantity(pv01, newQuantity) == [pv01 EXCEPT !.quantity = newQuantity]

\* AddPositionStore with the sensitivity of the whole position, not of one
\* unit, in a new entry.
AddPositionStoreTotal(store, position) ==
  LET productId == position.product
      aggregatePosition == GetAggregatePosition(position)
  IN IF ~Has(store, productId)
       THEN Put(store, productId,
                PV01(position.product, PV01PerUnit * aggregatePosition, aggregatePosition))
       ELSE Put(store, productId, UpdateQuantity(store[productId], aggregatePosition))

\* The table after AddPosition(position).
AddPositionStore(store, position) ==
  LET productId == position.product
      aggregatePosition == GetAggregatePosition(position)
  IN IF ~Has(store, productId)
       THEN Put(store, productId, PV01(position.product, PV01PerUnit, aggregatePosition))
       ELSE Put(store, productId, UpdateQuantity(store[productId], aggregatePosition))

AddPosition ==
  \E position \in RiskPositions, failAt \in FailPoints :
    LET productId == position.product
        store == AddPositionStore(dataStore, position)
    IN /\ svc = "risk"
       /\ Alive
       /\ Len(hist) < MaxOps
       /\ dataStore' = store
       /\ calls' = Notify("ProcessUpdate", store[productId], failAt)
       /\ result' = Outcome("AddPosition", productId, FanOutStatus(failAt), NoValue,
                            Has(dataStore, productId))
       /\ hist' = Append(hist, [op |-> "AddPosition", key |-> productId, arg |-> position])
       /\ UNCHANGED <<svc, listeners, bestBidOffer>>

\* totalPv01 after the loop over the first n products of the sector
RECURSIVE TotalPv01(_, _, _)
TotalPv01(store, products, n) ==
  IF n = 0 THEN 0
  ELSE TotalPv01(store, products, n - 1)
         + store[products[n]].pv01 * store[products[n]].quantity

\* totalQuantity after the loop over the first n products of the sector
RECURSIVE TotalQuantity(_, _, _)
TotalQuantity(store, products, n) ==
  IF n = 0 THEN 0
  ELSE TotalQuantity(store, products, n - 1) + store[products[n]].quantity

\* totalPv01 as the double the loop has accumulated after n products
RECURSIVE Binary64TotalPv01(_, _, _)
Binary64TotalPv01(store, products, n) ==
  IF n = 0 THEN Binary64Zero
  ELSE Binary64Plus(Binary64TotalPv01(store, products, n - 1),
                    Binary64Times(Binary64Of(store[products[n]].pv01),
                                  store[products[n]].quantity))

\* totalPv01 / totalQuantity as the double the call returns, for a total
\* quantity that is not zero
Binary64BucketPV01(store, products) ==
  Binary64Over(Binary64TotalPv01(store, products, Len(products)),
               TotalQuantity(store, products, Len(products)))

\* BucketedRisk with the plain mean: totalPv01 over the number of products.
BucketedRiskMean(store, products) ==
  LET totalPv01 == TotalPv01(store, products, Len(products))
      totalQuantity == TotalQuantity(store, products, Len(products))
  IN PV01(products, DoubleDiv(totalPv01, Len(products)), totalQuantity)

\* What GetBucketedRisk(sector) returns when every product is in the table.
BucketedRisk(store, products) ==
  LET totalPv01 == TotalPv01(store, products, Len(products))
      totalQuantity == TotalQuantity(store, products, Len(products))
  IN PV01(products, DoubleDiv(totalPv01, totalQuantity), totalQuantity)

\* GetBucketedRisk reading data[productId]: a product that has no entry gets
\* a value-initialised one, and the call returns.
GetBucketedRiskSubscript ==
  \E products \in Sectors :
    LET missing == {products[i] : i \in 1..Len(products)} \ DOMAIN dataStore
        store == [p \in missing |-> PV01("", 0, 0)] @@ dataStore
    IN /\ svc = "risk"
       /\ Alive
       /\ dataStore' = store
       /\ calls' = <<>>
       /\ result' = Outcome("GetBucketedRisk", products, "ok",
                            BucketedRisk(store, products), FALSE)
       /\ UNCHANGED <<svc, listeners, bestBidOffer, hist>>

\* The loop throws at the first product that has no entry.
GetBucketedRisk ==
  \E products \in Sectors :
    /\ svc = "risk"
    /\ Alive
    /\ IF \E i \in 1..Len(products) : ~Has(dataStore, products[i])
         THEN Throw("GetBucketedRisk", products, "NotFound")
         ELSE Return("GetBucketedRisk", products, BucketedRisk(dataStore, products))

RiskGetData ==
  \E productId \in Keys("risk") :
    /\ svc = "risk"
    /\ FindOrThrow(productId)

\* ----------------------------------------------------------- InquiryService
\* OnMessage that resets the state of what it stores to RECEIVED.
InquiryOnMessageReceived ==
  \E inquiry \in Inquiries, failAt \in FailPoints :
    LET stored == [inquiry EXCEPT !.state = "RECEIVED"]
    IN /\ svc = "inquiry"
       /\ Alive
       /\ Len(hist) < MaxOps
       /\ dataStore' = Put(dataStore, inquiry.inquiryId, stored)
       /\ calls' = Notify("ProcessAdd", stored, failAt)
       /\ result' = Outcome("OnMessage", inquiry.inquiryId, FanOutStatus(failAt),
                            NoValue, Has(dataStore, inquiry.inquiryId))
       /\ hist' = Append(hist, [op |-> "OnMessage", key |-> inquiry.inquiryId,
                                arg |-> inquiry])
       /\ UNCHANGED <<svc, listeners, bestBidOffer>>

InquiryOnMessage ==
  \E inquiry \in Inquiries, failAt \in FailPoints :
    /\ svc = "inquiry"
    /\ Publish("OnMessage", inquiry.inquiryId, inquiry, "ProcessAdd", failAt)

\* Quoted without SetPrice.
QuotedStateOnly(inquiry, price) == [inquiry EXCEPT !.state = "QUOTED"]

\* inquiry.SetPrice(price); inquiry.SetState(QUOTED);
Quoted(inquiry, price) == [inquiry EXCEPT !.price = price, !.state = "QUOTED"]

\* Rejected as SetState(DONE).
RejectedAsDone(inquiry) == [inquiry EXCEPT !.state = "DONE"]

\* inquiry.SetState(REJECTED);
Rejected(inquiry) == [inquiry EXCEPT !.state = "REJECTED"]

\* SendQuote without the find: an absent id gets an entry.
SendQuoteUnchecked ==
  \E inquiryId \in Keys("inquiry"), price \in QuotePrices, failAt \in FailPoints :
    LET found == IF Has(dataStore, inquiryId)
                   THEN dataStore[inquiryId]
                   ELSE Inquiry(inquiryId, "P1", "BUY", 0, 0, "RECEIVED")
        inquiry == Quoted(found, price)
    IN /\ svc = "inquiry"
       /\ Alive
       /\ Len(hist) < MaxTransitions
       /\ dataStore' = Put(dataStore, inquiryId, inquiry)
       /\ calls' = Notify("ProcessUpdate", inquiry, failAt)
       /\ result' = Outcome("SendQuote", inquiryId, FanOutStatus(failAt),
                            NoValue, Has(dataStore, inquiryId))
       /\ hist' = Append(hist, [op |-> "SendQuote", key |-> inquiryId,
                                arg |-> price])
       /\ UNCHANGED <<svc, listeners, bestBidOffer>>

SendQuote ==
  \E inquiryId \in Keys("inquiry"), price \in QuotePrices, failAt \in FailPoints :
    /\ svc = "inquiry"
    /\ Alive
    /\ IF ~Has(dataStore, inquiryId)
         THEN Throw("SendQuote", inquiryId, "NotFound")
         ELSE LET inquiry == Quoted(dataStore[inquiryId], price)
              IN /\ Len(hist) < MaxTransitions
                 /\ dataStore' = Put(dataStore, inquiryId, inquiry)
                 /\ calls' = Notify("ProcessUpdate", inquiry, failAt)
                 /\ result' = Outcome("SendQuote", inquiryId, FanOutStatus(failAt),
                                      NoValue, TRUE)
                 /\ hist' = Append(hist, [op |-> "SendQuote", key |-> inquiryId,
                                          arg |-> price])
                 /\ UNCHANGED <<svc, listeners, bestBidOffer>>

RejectInquiry ==
  \E inquiryId \in Keys("inquiry"), failAt \in FailPoints :
    /\ svc = "inquiry"
    /\ Alive
    /\ IF ~Has(dataStore, inquiryId)
         THEN Throw("RejectInquiry", inquiryId, "NotFound")
         ELSE LET inquiry == Rejected(dataStore[inquiryId])
              IN /\ Len(hist) < MaxTransitions
                 /\ dataStore' = Put(dataStore, inquiryId, inquiry)
                 /\ calls' = Notify("ProcessUpdate", inquiry, failAt)
                 /\ result' = Outcome("RejectInquiry", inquiryId, FanOutStatus(failAt),
                                      NoValue, TRUE)
                 /\ hist' = Append(hist, [op |-> "RejectInquiry", key |-> inquiryId,
                                          arg |-> NoValue])
                 /\ UNCHANGED <<svc, listeners, bestBidOffer>>

InquiryGetData ==
  \E inquiryId \in Keys("inquiry") :
    /\ svc = "inquiry"
    /\ FindOrThrow(inquiryId)

\* ------------------------------------------------------------ specification
\* A service object after construction: empty table, no listener.
InitOf(classes) ==
  /\ svc \in classes
  /\ dataStore = <<>>
  /\ listeners = <<>>
  /\ bestBidOffer = NoBidOffer
  /\ calls = <<>>
  /\ result = Outcome("construct", "", "ok", NoValue, FALSE)
  /\ hist = <<>>

Init == InitOf(Services)

Next ==
  \/ AddListener
  \/ GetListeners
  \/ BookTrade
  \/ TradeBookingGetData
  \/ PricingPublishPrice
  \/ PricingGetData
  \/ StreamingPublishPrice
  \/ StreamingGetData
  \/ ExecutionExecuteOrder
  \/ ExecutionOnMessage
  \/ ExecutionGetData
  \/ HistoricalPersistData
  \/ HistoricalOnMessage
  \/ HistoricalGetData
  \/ AggregateDepth
  \/ GetBestBidOffer
  \/ MarketDataOnMessage
  \/ MarketDataGetData
  \/ AddTrade
  \/ PositionGetData
  \/ PositionGetPosition
  \/ PositionGetAggregatePosition
  \/ AddPosition
  \/ GetBucketedRisk
  \/ RiskGetData
  \/ InquiryOnMessage
  \/ SendQuote
  \/ RejectInquiry
  \/ InquiryGetData

Spec == Init /\ [][Next]_vars

\* One specification per class, for the claims about one class.
NextPosition ==
  \/ AddListener
  \/ GetListeners
  \/ AddTrade
  \/ PositionGetData
  \/ PositionGetPosition
  \/ PositionGetAggregatePosition

SpecPosition == InitOf({"position"}) /\ [][NextPosition]_vars

NextRisk ==
  \/ AddListener
  \/ GetListeners
  \/ AddPosition
  \/ GetBucketedRisk
  \/ RiskGetData

SpecRisk == InitOf({"risk"}) /\ [][NextRisk]_vars

NextMarketData ==
  \/ AddListener
  \/ GetListeners
  \/ AggregateDepth
  \/ GetBestBidOffer
  \/ MarketDataOnMessage
  \/ MarketDataGetData

SpecMarketData == InitOf({"marketdata"}) /\ [][NextMarketData]_vars

NextInquiry ==
  \/ AddListener
  \/ GetListeners
  \/ InquiryOnMessage
  \/ SendQuote
  \/ RejectInquiry
  \/ InquiryGetData

SpecInquiry == InitOf({"inquiry"}) /\ [][NextInquiry]_vars

OverwriteClasses ==
  {"tradebooking", "pricing", "streaming", "marketdata", "execution", "historical"}

\* The overwrite-style classes: an ingestion is dataStore[key] = value.
NextOverwrite ==
  \/ AddListener
  \/ GetListeners
  \/ BookTrade
  \/ TradeBookingGetData
  \/ PricingPublishPrice
  \/ PricingGetData
  \/ StreamingPublishPrice
  \/ StreamingGetData
  \/ ExecutionExecuteOrder
  \/ ExecutionOnMessage
  \/ ExecutionGetData
  \/ HistoricalPersistData
  \/ HistoricalOnMessage
  \/ HistoricalGetData
  \/ AggregateDepth
  \/ GetBestBidOffer
  \/ MarketDataOnMessage
  \/ MarketDataGetData

SpecOverwrite == InitOf(OverwriteClasses) /\ [][NextOverwrite]_vars

\* ------------------------------------------------------------------ claims
IngestionOps ==
  {"BookTrade", "PublishPrice", "OnMessage", "AddTrade", "AddPosition", "SendQuote",
   "RejectInquiry", "ExecuteOrder", "PersistData"}

\* The last call was an ingestion that wrote the table and ran its fan-out.
Ingested == result.op \in IngestionOps /\ result.status \in {"ok", "ListenerError"}

\* Keys some ingestion call has written.
IngestedKeys == {hist[i].key : i \in 1..Len(hist)}

\* The argument of the most recent ingestion under key.
LastIngested(key) ==
  hist[CHOOSE i \in 1..Len(hist) :
         /\ hist[i].key = key
         /\ \A j \in (i + 1)..Len(hist) : hist[j].key # key].arg

\* C1: an ingestion call in which no listener fails has called every
\* registered listener once per registration, in registration order, by the
\* time it returns.
C1_FanOutInRegistrationOrder ==
  (result.op \in IngestionOps /\ result.status = "ok") =>
    /\ Len(calls) = Len(listeners)
    /\ \A i \in 1..Len(listeners) : calls[i].listener = listeners[i] /\ ~calls[i].threw

C1_Witness ==
  /\ result.op \in IngestionOps
  /\ result.status = "ok"
  /\ Len(listeners) = 2
  /\ listeners[1] # listeners[2]
  /\ Len(calls) = 2

\* C2: an ingestion notifies with ProcessAdd exactly when the key had no
\* stored value before the call, and with ProcessUpdate exactly when it had.
C2_AddIffKeyWasAbsent ==
  Ingested =>
    \A i \in 1..Len(calls) :
      /\ calls[i].method = "ProcessAdd" <=> ~result.existed
      /\ calls[i].method = "ProcessUpdate" <=> result.existed

\* C3: GetData of a key under which nothing was ever ingested fails with a
\* not-found error, whatever was queried before.
C3_GetDataOfUnknownKeyFails ==
  (result.op = "GetData" /\ result.key \notin IngestedKeys) => result.status = "NotFound"

\* C4: in the overwrite-style services every ingested key holds the value of
\* the most recent ingestion under it, GetData returns that value, and an
\* ingestion under one key leaves the value under every other key as it was.
C4_StoredIsLastIngested ==
  svc \in OverwriteClasses =>
    /\ \A k \in IngestedKeys : Has(dataStore, k) /\ dataStore[k] = LastIngested(k)
    /\ (result.op = "GetData" /\ result.key \in IngestedKeys) =>
         result.status = "ok" /\ result.value = LastIngested(result.key)

C4_OtherKeysKept ==
  (svc \in OverwriteClasses /\ hist' # hist) =>
    \A k \in DOMAIN dataStore :
      k # result'.key => Has(dataStore', k) /\ dataStore'[k] = dataStore[k]

\* C4: last write wins in the overwrite-style services: the stored value and
\* the value GetData returns are those of the most recent ingestion under the
\* key, and an ingestion under one key changes no other key.
C4_LastWriteWins == []C4_StoredIsLastIngested /\ [][C4_OtherKeysKept]_vars

C4_Witness ==
  /\ svc \in OverwriteClasses
  /\ Len(hist) = 2
  /\ hist[1].key = hist[2].key
  /\ hist[1].arg # hist[2].arg
  /\ result.op = "GetData"
  /\ result.key = hist[2].key
  /\ result.status = "ok"

\* The trades on product p that AddTrade has taken, oldest first.
RECURSIVE TradesOn(_, _)
TradesOn(p, n) ==
  IF n = 0 THEN <<>>
  ELSE IF hist[n].op = "AddTrade" /\ hist[n].key = p
         THEN Append(TradesOn(p, n - 1), hist[n].arg)
         ELSE TradesOn(p, n - 1)

\* +quantity for a BUY and -quantity for a SELL, summed over a sequence of trades.
RECURSIVE SignedSum(_)
SignedSum(trades) ==
  IF trades = <<>> THEN 0
  ELSE (IF Head(trades).side = "BUY" THEN Head(trades).quantity ELSE -Head(trades).quantity)
         + SignedSum(Tail(trades))

\* The table of a fresh PositionService after AddTrade of each trade in turn.
RECURSIVE Replay(_)
Replay(trades) ==
  IF trades = <<>> THEN <<>>
  ELSE AddTradeStore(Replay(SubSeq(trades, 1, Len(trades) - 1)), trades[Len(trades)])

\* C5: the aggregate position of a product is the signed sum of all its
\* trades, and every reordering of the trades gives the same aggregate.
C5_AggregateIsSignedSum ==
  svc = "position" =>
    \A p \in Products :
      LET trades == TradesOn(p, Len(hist))
      IN trades # <<>> =>
           /\ Has(dataStore, p)
           /\ GetAggregatePosition(dataStore[p]) = SignedSum(trades)
           /\ \A f \in Permutations(1..Len(trades)) :
                GetAggregatePosition(Replay([i \in 1..Len(trades) |-> trades[f[i]]])[p])
                  = GetAggregatePosition(dataStore[p])

C5_Witness ==
  /\ svc = "position"
  /\ Len(hist) = 2
  /\ hist[1].key = "P1" /\ hist[2].key = "P1"
  /\ hist[1].arg.book # hist[2].arg.book
  /\ hist[1].arg.side = "SELL" /\ hist[2].arg.side = "BUY"
  /\ GetAggregatePosition(dataStore["P1"]) = -1

\* C6: AddTrade adds the signed quantity of the trade to the quantity its
\* book had (zero for a book that was absent) and leaves every other book of
\* the product and every other product as it was.
C6_AddTradeAccumulates ==
  (svc = "position" /\ hist' # hist) =>
    LET trade == hist'[Len(hist')].arg
        delta == IF trade.side = "BUY" THEN trade.quantity ELSE -trade.quantity
        before == IF Has(dataStore, trade.product)
                    THEN dataStore[trade.product].positions ELSE <<>>
        after == dataStore'[trade.product].positions
    IN /\ after[trade.book] = BookQuantity(before, trade.book) + delta
       /\ DOMAIN after = DOMAIN before \cup {trade.book}
       /\ \A b \in DOMAIN before : b # trade.book => after[b] = before[b]
       /\ \A p \in DOMAIN dataStore :
            p # trade.product => Has(dataStore', p) /\ dataStore'[p] = dataStore[p]
       /\ DOMAIN dataStore' = DOMAIN dataStore \cup {trade.product}

\* C6: every AddTrade step accumulates into the book of the trade and changes
\* no other book and no other product.
C6_AddTradeFrame == [][C6_AddTradeAccumulates]_vars

C6_Witness ==
  /\ svc = "position"
  /\ Len(hist) = 2
  /\ hist[1].arg.product = hist[2].arg.product
  /\ hist[1].arg.book = hist[2].arg.book
  /\ hist[1].arg.side = "BUY" /\ hist[1].arg.quantity = 2
  /\ hist[2].arg.side = "BUY" /\ hist[2].arg.quantity = 1
  /\ dataStore[hist[2].arg.product].positions[hist[2].arg.book] = 3

\* C7: a Position is stored for a product exactly when an AddTrade for that
\* product has run; GetData of a product never traded fails with a not-found
\* error and stores nothing.
C7_PositionIffTraded ==
  svc = "position" =>
    /\ \A p \in Keys("position") : Has(dataStore, p) <=> p \in IngestedKeys
    /\ (result.op = "GetData" /\ result.key \notin IngestedKeys) =>
         result.status = "NotFound" /\ ~Has(dataStore, result.key)

C7_Witness ==
  /\ svc = "position"
  /\ hist # <<>>
  /\ result.op = "GetData"
  /\ result.key \notin IngestedKeys
  /\ result.status = "NotFound"

\* Sum of quantity_i over a sector of products that all have a PV01 entry.
RECURSIVE SectorQuantity(_)
SectorQuantity(products) ==
  IF products = <<>> THEN 0
  ELSE dataStore[Head(products)].quantity + SectorQuantity(Tail(products))

\* Sum of pv01_i * quantity_i over such a sector.
RECURSIVE SectorWeighted(_)
SectorWeighted(products) ==
  IF products = <<>> THEN 0
  ELSE dataStore[Head(products)].pv01 * dataStore[Head(products)].quantity
         + SectorWeighted(Tail(products))

AllRisked(products) == \A i \in 1..Len(products) : Has(dataStore, products[i])

\* C8: every PV01 entry keeps the per-unit sensitivity it was created with
\* and has the aggregate of the Position of the most recent AddPosition for
\* its product as quantity; AddPosition changes no other product's entry.
C8_QuantityIsLastAggregate ==
  svc = "risk" =>
    \A p \in DOMAIN dataStore :
      /\ p \in IngestedKeys
      /\ dataStore[p].quantity
           = SumOver(LastIngested(p).positions, DOMAIN LastIngested(p).positions)

C8_SensitivityKept ==
  svc = "risk" =>
    \A p \in DOMAIN dataStore :
      /\ Has(dataStore', p)
      /\ dataStore'[p].pv01 = dataStore[p].pv01
      /\ (hist' = hist \/ p # hist'[Len(hist')].key) => dataStore'[p] = dataStore[p]

\* C8: the quantity of a PV01 entry is the aggregate of the latest Position
\* for its product, its per-unit sensitivity never changes, and AddPosition
\* for one product changes no other entry.
C8_RiskEntries == []C8_QuantityIsLastAggregate /\ [][C8_SensitivityKept]_vars

C8_Witness ==
  /\ svc = "risk"
  /\ Len(hist) = 2
  /\ hist[1].key = hist[2].key
  /\ hist[1].arg.positions = ("B1" :> 2)
  /\ hist[2].arg.positions = ("B1" :> -1)
  /\ dataStore[hist[2].key] = PV01(hist[2].key, PV01PerUnit, -1)

\* C9: for a sector whose products all have entries and whose quantities do
\* not sum to zero, GetBucketedRisk returns the sum of the quantities and,
\* per unit, the sum of pv01_i * quantity_i over the sum of quantity_i, both
\* taken from the table as it is at the call.
C9_BucketIsWeightedAverage ==
  (/\ svc = "risk"
   /\ result.op = "GetBucketedRisk"
   /\ AllRisked(result.key)
   /\ SectorQuantity(result.key) # 0) =>
    /\ result.status = "ok"
    /\ result.value.quantity = SectorQuantity(result.key)
    /\ result.value.pv01.den # 0
    /\ result.value.pv01.num * SectorQuantity(result.key)
         = SectorWeighted(result.key) * result.value.pv01.den

C9_Witness ==
  /\ svc = "risk"
  /\ result.op = "GetBucketedRisk"
  /\ result.status = "ok"
  /\ Len(result.key) = 2
  /\ result.key[1] # result.key[2]
  /\ dataStore[result.key[1]].quantity = 2
  /\ dataStore[result.key[2]].quantity = -1
  /\ result.value.quantity = 1

\* C10: GetBucketedRisk over a sector whose quantities sum to zero (the
\* empty sector, positions that cancel) fails with an error and returns no
\* NaN and no infinity.
C10_ZeroQuantityBucketFails ==
  (/\ svc = "risk"
   /\ result.op = "GetBucketedRisk"
   /\ AllRisked(result.key)
   /\ SectorQuantity(result.key) = 0) =>
    /\ result.status # "ok"
    /\ result.value \notin {PV01(result.key, x, 0) : x \in {NaN, PosInf, NegInf}}

\* C11: GetBucketedRisk over a sector with a product that has no PV01 entry
\* fails with an error, wherever the product stands in the sector, and
\* leaves the table as it was.
C11_UnriskedProductFails ==
  (/\ svc = "risk"
   /\ result'.op = "GetBucketedRisk"
   /\ \E i \in 1..Len(result'.key) : ~Has(dataStore, result'.key[i])) =>
    /\ result'.status = "NotFound"
    /\ dataStore' = dataStore

C11_BucketOfUnriskedProduct == [][C11_UnriskedProductFails]_vars

C11_Witness ==
  /\ svc = "risk"
  /\ result.op = "GetBucketedRisk"
  /\ result.status = "NotFound"
  /\ Len(result.key) = 2
  /\ Has(dataStore, result.key[1])
  /\ ~Has(dataStore, result.key[2])

\* The last order book ingested for the product of the last call has a bid
\* and an offer.
LastBookHasBothSides ==
  /\ result.key \in IngestedKeys
  /\ LastIngested(result.key).bidStack # <<>>
  /\ LastIngested(result.key).offerStack # <<>>

\* C12: for a product whose last ingested book has a bid and an offer,
\* GetBestBidOffer returns the first element of each stack of that book as
\* it is, whether or not the stack is sorted and the bid is below the offer.
C12_BestIsFirstOfEachStack ==
  (svc = "marketdata" /\ result.op = "GetBestBidOffer" /\ LastBookHasBothSides) =>
    /\ result.status = "ok"
    /\ result.value.bidOrder = LastIngested(result.key).bidStack[1]
    /\ result.value.offerOrder = LastIngested(result.key).offerStack[1]

C12_Witness ==
  /\ svc = "marketdata"
  /\ result.op = "GetBestBidOffer"
  /\ result.status = "ok"
  /\ result.key \in IngestedKeys
  /\ Len(LastIngested(result.key).bidStack) = 2
  /\ result.value = BidOffer(Order(98, 2, "BID"), Order(100, 1, "OFFER"))

\* C13: GetBestBidOffer for a product id under which no book was ever
\* ingested fails with a not-found error and creates no entry for the id.
C13_BestOfUnknownProductFails ==
  (svc = "marketdata" /\ result.op = "GetBestBidOffer" /\ result.key \notin IngestedKeys) =>
    /\ result.status = "NotFound"
    /\ ~Has(dataStore, result.key)

\* C14: GetBestBidOffer for a product whose stored book has an empty bid or
\* offer stack fails with a precondition error and reads no first element.
C14_EmptyStackIsRejected ==
  (/\ svc = "marketdata"
   /\ result.op = "GetBestBidOffer"
   /\ result.key \in IngestedKeys
   /\ ~LastBookHasBothSides) =>
    result.status = "PreconditionViolation"

\* The operations that only ask.
QueryOps ==
  {"GetData", "GetListeners", "GetPosition", "GetAggregatePosition",
   "GetBestBidOffer", "AggregateDepth", "GetBucketedRisk"}

\* C15: a query leaves the stored keys, every stored value and the listener
\* list as they were, and AggregateDepth returns the book as it was ingested.
C15_QueryChangesNothing ==
  result'.op \in QueryOps =>
    /\ dataStore' = dataStore
    /\ listeners' = listeners
    /\ (result'.op = "AggregateDepth" /\ result'.key \in IngestedKeys) =>
         result'.value = LastIngested(result'.key)

C15_QueriesArePureReads == [][C15_QueryChangesNothing]_vars

\* Every callback of the last call had the given method and argument, and
\* every listener was called unless one of them failed.
Notified(method, data) ==
  /\ \A i \in 1..Len(calls) : calls[i].method = method /\ calls[i].data = data
  /\ result.status = "ok" => Len(calls) = Len(listeners)

\* The same of the call a step makes.
NotifiedNext(method, data) ==
  /\ \A i \in 1..Len(calls') : calls'[i].method = method /\ calls'[i].data = data
  /\ result'.status = "ok" => Len(calls') = Len(listeners')

\* SendQuote(I, p) on a stored inquiry sets its price to p and its state to
\* QUOTED, changes no other field and no other inquiry, and calls
\* ProcessUpdate with the quoted inquiry.
C16_SendQuoteStep ==
  (result'.op = "SendQuote" /\ result'.status # "NotFound") =>
    LET I == result'.key
        p == hist'[Len(hist')].arg
    IN /\ dataStore' = Put(dataStore, I, [dataStore[I] EXCEPT !.price = p,
                                                               !.state = "QUOTED"])
       /\ NotifiedNext("ProcessUpdate", dataStore'[I])

\* RejectInquiry(I) on a stored inquiry sets its state to REJECTED and
\* changes nothing else, the price included.
C16_RejectStep ==
  (result'.op = "RejectInquiry" /\ result'.status # "NotFound") =>
    LET I == result'.key
    IN /\ dataStore' = Put(dataStore, I, [dataStore[I] EXCEPT !.state = "REJECTED"])
       /\ NotifiedNext("ProcessUpdate", dataStore'[I])

\* GetData(I) returns the stored inquiry, which is the latest one.
C16_GetDataIsLatest ==
  (result.op = "GetData" /\ result.status = "ok") => result.value = dataStore[result.key]

\* The lifecycle OnMessage(I in RECEIVED), SendQuote(I, p), RejectInquiry(I).
Lifecycle(I, p) ==
  /\ Len(hist) = 3
  /\ hist[1].op = "OnMessage" /\ hist[1].key = I /\ hist[1].arg.state = "RECEIVED"
  /\ hist[2] = [op |-> "SendQuote", key |-> I, arg |-> p]
  /\ hist[3] = [op |-> "RejectInquiry", key |-> I, arg |-> NoValue]

\* At the end of the lifecycle the inquiry is the one ingested, but for its
\* state REJECTED and its price p; after the quote it is that one in QUOTED.
C16_LifecycleStates ==
  \A I \in InquiryIds, p \in QuotePrices :
    /\ Lifecycle(I, p) =>
         dataStore[I] = [hist[1].arg EXCEPT !.state = "REJECTED", !.price = p]
    /\ (/\ Len(hist) = 2
        /\ hist[1].op = "OnMessage" /\ hist[1].key = I /\ hist[1].arg.state = "RECEIVED"
        /\ hist[2] = [op |-> "SendQuote", key |-> I, arg |-> p]) =>
         dataStore[I] = [hist[1].arg EXCEPT !.state = "QUOTED", !.price = p]

\* C16: an inquiry ingested in RECEIVED is QUOTED at price p after
\* SendQuote(I, p) with ProcessUpdate sent to the listeners, then REJECTED
\* at the same price after RejectInquiry(I); GetData(I) returns the latest
\* state and price, and no other field changes.
C16_QuoteThenReject ==
  /\ [](C16_LifecycleStates /\ C16_GetDataIsLatest)
  /\ [][C16_SendQuoteStep /\ C16_RejectStep]_vars

C16_Witness ==
  /\ Lifecycle("I1", 101)
  /\ result.op = "GetData"
  /\ result.value = Inquiry("I1", "P1", "BUY", 1, 101, "REJECTED")
  /\ Len(listeners) > 0

TerminalStates == {"REJECTED", "DONE", "CUSTOMER_REJECTED"}

\* C17: once a stored inquiry is REJECTED, DONE or CUSTOMER_REJECTED, no
\* call changes its state or its price.
C17_TerminalIsKept ==
  \A I \in DOMAIN dataStore :
    dataStore[I].state \in TerminalStates =>
      /\ dataStore'[I].state = dataStore[I].state
      /\ dataStore'[I].price = dataStore[I].price

C17_TerminalStatesAreFinal == [][C17_TerminalIsKept]_vars

\* C18, as claimed: right after OnMessage(inquiry) the stored inquiry is in
\* state RECEIVED and the listeners were notified with ProcessAdd.
C18_StoredInReceived ==
  (svc = "inquiry" /\ result.op = "OnMessage") =>
    /\ dataStore[result.key].state = "RECEIVED"
    /\ Notified("ProcessAdd", LastIngested(result.key))

\* C18, amended: right after OnMessage(inquiry) the stored inquiry is the
\* one passed in, in the state it was passed in (RECEIVED when passed in
\* RECEIVED), and the listeners were notified with ProcessAdd.
C18_StoredAsGiven ==
  (svc = "inquiry" /\ result.op = "OnMessage") =>
    /\ dataStore[result.key] = LastIngested(result.key)
    /\ Notified("ProcessAdd", LastIngested(result.key))

C18_Witness ==
  /\ svc = "inquiry"
  /\ result.op = "OnMessage"
  /\ result.status = "ok"
  /\ dataStore[result.key].state = "DONE"
  /\ Len(calls) = 2

\* C19: SendQuote and RejectInquiry of an id that is not stored fail with
\* not-found, call no listener, create no entry and change no inquiry.
C19_UnknownInquiryStep ==
  (/\ svc = "inquiry"
   /\ result'.op \in {"SendQuote", "RejectInquiry"}
   /\ ~Has(dataStore, result'.key)) =>
    /\ result'.status = "NotFound"
    /\ calls' = <<>>
    /\ dataStore' = dataStore

C19_UnknownInquiryFails == [][C19_UnknownInquiryStep]_vars

C19_Witness ==
  /\ svc = "inquiry"
  /\ result.op = "SendQuote"
  /\ result.status = "NotFound"
  /\ DOMAIN dataStore = {"I1"}
  /\ result.key = "I2"
  /\ Len(listeners) > 0

\* C20: when the i-th listener fails, listeners 1..i-1 were called in order,
\* the i-th call is the last one, and the caller gets the failure.
C20_FanOutStopsAtFailure ==
  /\ \A i \in 1..Len(calls) :
       calls[i].threw => i = Len(calls) /\ result.status = "ListenerError"
  /\ result.status = "ListenerError" =>
       /\ Len(calls) \in 1..Len(listeners)
       /\ calls[Len(calls)].threw
       /\ \A j \in 1..Len(calls) : calls[j].listener = listeners[j]

C20_Witness ==
  /\ result.status = "ListenerError"
  /\ Len(listeners) = 2
  /\ Len(calls) = 1
  /\ calls[1].threw

\* The step is an ingestion of the key-entity pair that the ingestion
\* before it wrote.
Reingestion ==
  /\ hist # <<>>
  /\ hist' = Append(hist, hist[Len(hist)])

\* The step called every registered listener, in order, unless one failed.
EveryListenerCalled ==
  result'.status = "ok" =>
    /\ Len(calls') = Len(listeners)
    /\ \A i \in 1..Len(calls') : calls'[i].listener = listeners[i]

\* C21, as claimed: in every class, ingesting the same key-entity pair a
\* second time leaves the table as the first ingestion left it and calls
\* every registered listener again.
C21_ReingestionStep ==
  Reingestion => dataStore' = dataStore /\ EveryListenerCalled

C21_ReingestionOverwrites == [][C21_ReingestionStep]_vars

\* C21, amended: the same in every class but PositionService, where
\* AddTrade of the same trade a second time moves the book of the trade by
\* the signed quantity once more; the listeners are called again in every
\* class.
C21_ReingestionAmendedStep ==
  Reingestion =>
    /\ EveryListenerCalled
    /\ svc # "position" => dataStore' = dataStore
    /\ svc = "position" =>
         LET trade == hist[Len(hist)].arg
         IN /\ dataStore' # dataStore
            /\ BookQuantity(dataStore'[trade.product].positions, trade.book)
                 = BookQuantity(dataStore[trade.product].positions, trade.book)
                     + SignedQuantity(trade)

C21_ReingestionOverwritesButAddTrade == [][C21_ReingestionAmendedStep]_vars

C21_Witness ==
  /\ svc = "execution"
  /\ Len(hist) = 2
  /\ hist[1] = hist[2]
  /\ result.status = "ok"
  /\ Len(calls) = 2

\* How many times l stands in the listener vector, and how many calls the
\* last method made to l.
Registrations(l) == Cardinality({i \in 1..Len(listeners) : listeners[i] = l})
CallsTo(l) == Cardinality({i \in 1..Len(calls) : calls[i].listener = l})

\* AddListener(l) appends l, a duplicate included; every other call leaves
\* the listener vector as it was.
C22_ListenersStep ==
  IF result'.op = "AddListener"
    THEN listeners' = Append(listeners, result'.key)
    ELSE listeners' = listeners

\* GetListeners returns the vector, and an ingestion in which no listener
\* fails has called each listener once per registration.
C22_ListenersSeen ==
  /\ result.op = "GetListeners" => result.value = listeners
  /\ (Ingested /\ result.status = "ok") =>
       \A l \in Listeners : CallsTo(l) = Registrations(l)

\* C22: the listener vector starts empty and only AddListener changes it,
\* by appending its argument, so GetListeners returns the listeners passed
\* to AddListener in call order with duplicates kept, and a listener
\* registered k times is called k times per ingestion.
C22_AddListenerAppends == [](C22_ListenersSeen) /\ [][C22_ListenersStep]_vars

C22_Witness ==
  /\ listeners = <<"L1", "L1">>
  /\ Ingested
  /\ result.status = "ok"
  /\ CallsTo("L1") = 2

\* C23: the historical-data sink keeps every entity it received, through
\* OnMessage or PersistData, under the identifier of the entity, so that
\* entities with different identifiers never overwrite one another.
C23_StoredUnderOwnIdentifier ==
  svc = "historical" =>
    \A i \in 1..Len(hist) :
      /\ Has(dataStore, hist[i].arg.id)
      /\ dataStore[hist[i].arg.id] = hist[i].arg

\* C24: ExecutionService keeps the last order executed for a product under
\* the identifier of the product.
C24_KeyedOnProduct ==
  (svc = "execution" /\ hist # <<>>) =>
    LET order == hist[Len(hist)].arg
    IN /\ Has(dataStore, order.product)
       /\ dataStore[order.product] = order

\* What an ingestion that ended with the exception of a listener has left
\* under its key: the new trade, price, book, order or inquiry, the book of
\* the trade moved by the signed quantity, the refreshed PV01 quantity, the
\* QUOTED or REJECTED inquiry.
C25_WrittenDespiteFailure ==
  result'.status = "ListenerError" =>
    LET e == hist'[Len(hist')]
        before == IF Has(dataStore, e.key) /\ e.op = "AddTrade"
                    THEN dataStore[e.key].positions ELSE <<>>
    IN /\ hist' = Append(hist, e)
       /\ Has(dataStore', e.key)
       /\ \A i \in 1..Len(calls') : calls'[i].data = dataStore'[e.key]
       /\ CASE e.op = "AddTrade" ->
                 BookQuantity(dataStore'[e.key].positions, e.arg.book)
                   = BookQuantity(before, e.arg.book) + SignedQuantity(e.arg)
            [] e.op = "AddPosition" ->
                 dataStore'[e.key].quantity = GetAggregatePosition(e.arg)
            [] e.op = "SendQuote" ->
                 dataStore'[e.key].state = "QUOTED" /\ dataStore'[e.key].price = e.arg
            [] e.op = "RejectInquiry" ->
                 dataStore'[e.key].state = "REJECTED"
            [] OTHER -> dataStore'[e.key] = e.arg

\* GetData of a stored key returns what is stored, whatever the fan-out of
\* the ingestion that wrote it did.
C25_GetDataReturnsStored ==
  (result.op = "GetData" /\ result.status = "ok") =>
    /\ Has(dataStore, result.key)
    /\ result.value = dataStore[result.key]

\* C25: an ingestion writes the table before it calls the first listener,
\* so when a listener fails the new value is stored, is what the listeners
\* called so far were given, and is what GetData returns afterwards.
C25_NoRollback == []C25_GetDataReturnsStored /\ [][C25_WrittenDespiteFailure]_vars

C25_Witness ==
  /\ svc = "position"
  /\ result.op = "AddTrade"
  /\ result.status = "ListenerError"
  /\ Len(hist) = 2
  /\ hist[1].arg = Trade("P1", "T2", 100, "B1", 2, "BUY")
  /\ hist[2].arg = Trade("P1", "T3", 100, "B1", 1, "SELL")
  /\ dataStore["P1"].positions["B1"] = 1

\* The inquiry of the most recent OnMessage for the id.
LastOnMessage(I) ==
  hist[CHOOSE i \in 1..Len(hist) :
         /\ hist[i].op = "OnMessage" /\ hist[i].key = I
         /\ \A j \in (i + 1)..Len(hist) : ~(hist[j].op = "OnMessage" /\ hist[j].key = I)].arg

\* SendQuote moves the inquiry to QUOTED and RejectInquiry to REJECTED;
\* but for them and OnMessage, no call changes the table.
C27_StateStep ==
  CASE result'.op = "SendQuote" /\ result'.status # "NotFound" ->
         dataStore'[result'.key].state = "QUOTED"
    [] result'.op = "RejectInquiry" /\ result'.status # "NotFound" ->
         dataStore'[result'.key].state = "REJECTED"
    [] result'.op = "OnMessage" -> dataStore'[result'.key] = hist'[Len(hist')].arg
    [] OTHER -> dataStore' = dataStore

\* A stored inquiry in DONE or CUSTOMER_REJECTED was ingested in that state
\* by the most recent OnMessage for its id.
C27_DoneOnlyAsIngested ==
  \A I \in DOMAIN dataStore :
    dataStore[I].state \in {"DONE", "CUSTOMER_REJECTED"} =>
      /\ \E i \in 1..Len(hist) : hist[i].op = "OnMessage" /\ hist[i].key = I
      /\ LastOnMessage(I).state = dataStore[I].state

\* C27: SendQuote only sets QUOTED and RejectInquiry only sets REJECTED, no
\* other call modifies a stored inquiry, and so an inquiry is stored in DONE
\* or CUSTOMER_REJECTED only if the last OnMessage for its id carried that
\* state.
C27_StatesSetByTheService == []C27_DoneOnlyAsIngested /\ [][C27_StateStep]_vars

C27_Witness ==
  /\ svc = "inquiry"
  /\ Len(hist) = 2
  /\ hist[1].arg = Inquiry("I1", "P1", "BUY", 1, 0, "RECEIVED")
  /\ hist[2].arg = Inquiry("I1", "P1", "BUY", 1, 0, "DONE")
  /\ dataStore["I1"].state = "DONE"

\* The last call was a GetBucketedRisk that returned a bucket whose quantity
\* is not zero.
BucketReturned ==
  /\ svc = "risk"
  /\ result.op = "GetBucketedRisk"
  /\ result.status = "ok"
  /\ result.value.quantity # 0

\* Every stored entry has the sensitivity 0.01 it was created with.
SameSensitivity ==
  svc = "risk" => \A p \in DOMAIN dataStore : dataStore[p].pv01 = PV01PerUnit

\* C26, as claimed: every stored entry has the sensitivity 0.01, and the
\* double GetBucketedRisk returns as the per-unit value of a bucket of
\* quantity other than zero is that constant, whatever the quantities.
C26_BucketIsTheConstant ==
  /\ SameSensitivity
  /\ BucketReturned => Binary64BucketPV01(dataStore, result.key) = Binary64PV01

\* C26, amended: every stored entry has the sensitivity 0.01, and the
\* per-unit value of a bucket of quantity other than zero, the sum of
\* 0.01 * quantity_i over the sum of quantity_i, is that constant as a real
\* number; the double that the call returns is the constant only up to the
\* rounding of the products, the sum and the quotient.
C26_BucketIsTheConstantInExactArithmetic ==
  /\ SameSensitivity
  /\ BucketReturned => result.value.pv01 = [num |-> PV01PerUnit, den |-> 1]

C26_Witness ==
  /\ BucketReturned
  /\ result.key = <<"P1", "P2">>
  /\ dataStore["P1"].quantity = -1
  /\ dataStore["P2"].quantity = 3
  /\ result.value.pv01 = [num |-> PV01PerUnit, den |-> 1]
  /\ Binary64BucketPV01(dataStore, result.key) # Binary64PV01

====
